---------------------------- MODULE Spec2Model ----------------------------
(***************************************************************************)
(* A model of unikmer's binary container (src/file.go: Header, Reader,     *)
(* Writer) and of the commands that stream k-mer codes through it          *)
(* (union, diff, uniqs, count).                                             *)
(*                                                                         *)
(* A uint64 is kept as four 16-bit limbs, most significant first, so that  *)
(* the whole 64-bit range (k = 32) stays inside the model checker's        *)
(* integers; big-endian encoding and decoding are computed limb by limb.   *)
(***************************************************************************)
EXTENDS Integers, Sequences, FiniteSets, TLC

VARIABLES
    writer,     \* the Writer struct (Header.K, wroteHeader, err, size, Compact)
    wout,       \* bytes emitted so far on the Writer's io.Writer
    wlog,       \* history: the KmerCodes of the Write calls that returned nil
    phase,      \* "write" | "closed" | "read" | "end" | "failed"
    damage,     \* what happened to the stored bytes: "none" | "short" | "magic"
    file,       \* the stored bytes a Reader is opened on
    reader,     \* the Reader struct, or NoReader
    rin,        \* bytes of the Reader's io.Reader not yet consumed
    rerr,       \* the error returned by the last NewReader / Read call
    got,        \* the KmerCodes returned by Read so far
    cmd,        \* the command that runs: "none" | "union" | "diff" | "uniqs" | "count"
    files,      \* the command's argument list: a sequence of paths
    disk,       \* path -> the container stored there
    pc,         \* the command's position
    i,          \* Go's i: the index of the file of the current iteration (0-based);
                \* in the scans of uniqs and count the window position
    k,          \* the command's k (-1 until the first header is read)
    canonical,  \* union, uniqs: the CANONICAL flag of the first file;
                \* count: the --canonical option
    firstFile,  \* the command's firstFile flag
    hasDiff,    \* diff: hasDiff
    m,          \* the in-memory mapping (diff: code -> bool; else: a set of codes)
    pos,        \* number of codes of the open file already returned by Read
    output,     \* the codes written to the output container so far, in order
    n,          \* union: the count n
    checkInterval, \* diff: the --check-interval value of the current run
    intervals,  \* diff: the check intervals of the first and of the second run
    run,        \* diff: 1 in the first run of the command, 2 in the second
    result1,    \* diff: the set of codes the first run ended with
    genome,     \* uniqs: the records of the genome file; count: of the sequence file
    circular,   \* the --circular option
    minLen,     \* uniqs: the --min-len option
    mMapped,    \* uniqs: the --allow-muliple-mapped-kmer option
    sortKmers,  \* count: the --sort option
    rec,        \* the number of records fastxReader.Read has returned in this pass
    strand,     \* count: j, 0 for the sequence, 1 for its reverse complement
    sequence,   \* the bases of the record that is scanned
    kmer,       \* the window of the last iteration
    preKmer,    \* the window kept for the incremental encoder
    preKcode,   \* the code kept for the incremental encoder
    firstKmer,  \* first: no window of this record was encoded yet
    cRun,       \* uniqs: the run counter c
    start,      \* uniqs: start, -1 while no run has started
    m2,         \* uniqs: code -> multiple mapped; count: the codes kept for sorting
    bed,        \* uniqs: the intervals written, in order: <<record, start, end>>
    enc,        \* history: the arguments and the result of the last encoder call
    sink,       \* union: the state of the stream under the Writer: "ok" | "failed"
    faults      \* the number of write calls the stream under the Writer has refused

containerVars == <<writer, wout, wlog, phase, damage, file, reader, rin, rerr, got>>
cmdVars == <<cmd, files, disk, pc, i, k, canonical, firstFile, hasDiff, m, pos,
             output, n, checkInterval, intervals, run, result1>>
scanVars == <<genome, circular, minLen, mMapped, sortKmers, rec, strand, sequence, kmer,
              preKmer, preKcode, firstKmer, cRun, start, m2, bed, enc>>
envVars == <<sink, faults>>
vars == <<containerVars, cmdVars, scanVars, envVars>>

---------------------------------------------------------------------------
(* Bounds of the model *)

\* the longest sequence of codes written to one Writer
MaxRecords == 2
\* the longest argument list of a command
MaxFiles == 3
\* the largest number of codes in a container on the disk
MaxBody == 2
\* the largest --check-interval
MaxInterval == 2
\* the longest record of a genome of one record
MaxSeqLen == 5
\* the longest record of a genome of two records
MaxShort == 2
\* the lengths of the two records of a genome whose first record is very short
MaxFirst == 1
MaxSecond == 4
\* the largest --min-len
MaxMinLen == 2
\* the number of write calls the stream under a Writer may refuse
MaxFaults == 2
\* the largest number of body bytes of a stream handed to a read loop
MaxStream == 3

---------------------------------------------------------------------------
(* src/file.go: constants and errors *)

MainVersion == 0
MinorVersion == 2
Magic == <<46, 117, 110, 105, 107, 109, 101, 114>>     \* ".unikmer"

ErrNil == "nil"
ErrInvalidFileFormat == "unikmer: invalid binary format"
ErrKMismatch == "unikmer: K mismatch"
\* io.EOF and io.ErrUnexpectedEOF, as io.ReadFull (under binary.Read) returns them
EOF == "EOF"
ErrUnexpectedEOF == "unexpected EOF"

NoReader == "nil"

Min(a, b) == IF a < b THEN a ELSE b
Max(a, b) == IF a > b THEN a ELSE b

RECURSIVE Pow2(_)
Pow2(e) == IF e = 0 THEN 1 ELSE 2 * Pow2(e - 1)

---------------------------------------------------------------------------
(* encoding/binary, big endian, as file.go uses it *)

\* be.PutUint64(buf, v): the 8 bytes of v, most significant first
PutUint64(v) ==
    <<v[1] \div 256, v[1] % 256, v[2] \div 256, v[2] % 256,
      v[3] \div 256, v[3] % 256, v[4] \div 256, v[4] % 256>>

\* be.Uint64(buf): the value of 8 bytes, most significant first
Uint64(b) ==
    <<b[1] * 256 + b[2], b[3] * 256 + b[4], b[5] * 256 + b[6], b[7] * 256 + b[8]>>

\* an int64 of small magnitude as the uint64 bit pattern binary.Write emits
Int64Bits(x) ==
    IF x >= 0 THEN <<0, 0, x \div 65536, x % 65536>>
    ELSE <<65535, 65535, 65535, 65536 + x>>

\* int(meta[i]): the int of a uint64 bit pattern (for the patterns that fit)
IntOfBits(v) ==
    CASE v[1] = 0 /\ v[2] = 0 /\ v[3] < 32768 -> v[3] * 65536 + v[4]
      [] v[1] = 65535 /\ v[2] = 65535 /\ v[3] = 65535 -> v[4] - 65536

\* io.ReadFull(r, buf) with len(buf) = cnt on the remaining bytes s:
\* all cnt bytes, or EOF when nothing is left, or ErrUnexpectedEOF
ReadFull(s, cnt) ==
    IF Len(s) >= cnt
    THEN [err |-> ErrNil, data |-> SubSeq(s, 1, cnt), rest |-> SubSeq(s, cnt + 1, Len(s))]
    ELSE IF Len(s) = 0
    THEN [err |-> EOF, data |-> <<>>, rest |-> s]
    ELSE [err |-> ErrUnexpectedEOF, data |-> <<>>, rest |-> <<>>]

---------------------------------------------------------------------------
(* Writer *)

\* NewWriter(w, k)
NewWriter(kk) ==
    [K |-> kk, MainVersion |-> MainVersion, MinorVersion |-> MinorVersion,
     wroteHeader |-> FALSE, err |-> ErrNil, size |-> 0, Compact |-> FALSE,
     bufsize |-> (kk + 3) \div 4]

\* Writer.writeHeader: the bytes it emits (the underlying writer never fails here)
HeaderBytes(w) ==
    LET minorVersion == IF w.Compact THEN 2 ELSE 1
    IN  Magic \o PutUint64(Int64Bits(MainVersion))
              \o PutUint64(Int64Bits(minorVersion))
              \o PutUint64(Int64Bits(w.K))

\* a slip in the compact record: the high bufsize bytes instead of the low ones
RecordBytes_HighBytes(w, kcode) ==
    IF w.Compact
    THEN SubSeq(PutUint64(kcode.Code), 1, w.bufsize)
    ELSE PutUint64(kcode.Code)

\* Writer.Write, the body record of one code
RecordBytes(w, kcode) ==
    IF w.Compact
    THEN SubSeq(PutUint64(kcode.Code), 8 - w.bufsize + 1, 8)
    ELSE PutUint64(kcode.Code)

\* a slip in Write: the lazy header comes before the check of K
WriterWrite_HeaderBeforeKCheck(w, o, kcode) ==
    LET o1 == IF ~w.wroteHeader THEN o \o HeaderBytes(w) ELSE o
        w1 == [w EXCEPT !.wroteHeader = TRUE]
    IN  IF w.K # kcode.K
        THEN [w |-> [w1 EXCEPT !.err = ErrKMismatch], out |-> o1, err |-> ErrKMismatch]
        ELSE [w |-> [w1 EXCEPT !.err = ErrNil, !.size = @ + 1],
              out |-> o1 \o RecordBytes(w, kcode),
              err |-> ErrNil]

\* Writer.Write(kcode) on writer w with o emitted so far:
\* the writer after the call, the bytes emitted after the call, the error returned
WriterWrite(w, o, kcode) ==
    IF w.K # kcode.K
    THEN [w |-> [w EXCEPT !.err = ErrKMismatch], out |-> o, err |-> ErrKMismatch]
    ELSE LET o1 == IF ~w.wroteHeader THEN o \o HeaderBytes(w) ELSE o
         IN  [w |-> [w EXCEPT !.wroteHeader = TRUE, !.err = ErrNil, !.size = @ + 1],
              out |-> o1 \o RecordBytes(w, kcode),
              err |-> ErrNil]

---------------------------------------------------------------------------
(* Reader *)

\* a slip in the magic comparison: the loop stops one byte early
SameMagic_SevenBytes(mg) == \A j \in 1..7 : Magic[j] = mg[j]

\* Reader.readHeader, the comparison loop over the 8 bytes read
SameMagic(mg) == \A j \in 1..8 : Magic[j] = mg[j]

\* Reader.readHeader on the stream s: the error, the Reader, the rest of the stream
ReadHeader(s) ==
    LET r1 == ReadFull(s, 8)
        same == SameMagic(r1.data)
        r2 == ReadFull(r1.rest, 24)
        meta == [j \in 1..3 |-> Uint64(SubSeq(r2.data, 8 * j - 7, 8 * j))]
    IN  IF r1.err # ErrNil THEN [err |-> r1.err, reader |-> NoReader, rest |-> r1.rest]
        ELSE IF ~same THEN [err |-> ErrInvalidFileFormat, reader |-> NoReader, rest |-> r1.rest]
        ELSE IF r2.err # ErrNil THEN [err |-> r2.err, reader |-> NoReader, rest |-> r2.rest]
        ELSE [err |-> ErrNil,
              reader |-> [MainVersion |-> IntOfBits(meta[1]),
                          MinorVersion |-> IntOfBits(meta[2]),
                          K |-> IntOfBits(meta[3]),
                          Compact |-> (IntOfBits(meta[2]) = 2),
                          buf |-> <<0, 0, 0, 0, 0, 0, 0, 0>>,
                          bufsize |-> (IntOfBits(meta[3]) + 3) \div 4,
                          size |-> 0],
              rest |-> r2.rest]

\* NewReader(r): a Reader only when readHeader returned nil
NewReader(s) == ReadHeader(s)

\* Reader.Read on reader r with s left in the stream
ReaderRead(r, s) ==
    LET width == IF r.Compact THEN r.bufsize ELSE 8
        rf == ReadFull(s, width)
        buf == IF r.Compact /\ rf.err = ErrNil
               THEN SubSeq(r.buf, 1, 8 - r.bufsize) \o rf.data
               ELSE r.buf
        code == IF r.Compact THEN Uint64(buf) ELSE Uint64(rf.data)
    IN  IF rf.err # ErrNil
        THEN [err |-> rf.err, reader |-> [r EXCEPT !.buf = buf], rest |-> rf.rest,
              kcode |-> [Code |-> <<0, 0, 0, 0>>, K |-> 0]]
        ELSE [err |-> ErrNil, reader |-> [r EXCEPT !.buf = buf, !.size = @ + 1],
              rest |-> rf.rest, kcode |-> [Code |-> code, K |-> r.K]]

---------------------------------------------------------------------------
(* The inputs of the container model *)

\* the k values of the writers: every k whose codes fit 64 bits
WriterKs == 1..32

\* the number of bits of limb j (1 = most significant) below bit 2k
LimbBits(kk, j) == Min(16, Max(0, 2 * kk - 16 * (4 - j)))

\* v reduced to its low 2k bits: a code below 4^k
MaskCode(v, kk) == [j \in 1..4 |-> v[j] % Pow2(LimbBits(kk, j))]

\* 0, 1, 4^k - 1 and 0x0123456789ABCDEF, reduced to 2k bits
CodePatterns == {<<0, 0, 0, 0>>, <<0, 0, 0, 1>>, <<65535, 65535, 65535, 65535>>,
                 <<291, 17767, 35243, 52719>>}
SampleCodes(kk) == {MaskCode(v, kk) : v \in CodePatterns}

\* a k that differs from the writer's
OtherK(kk) == IF kk = 4 THEN 16 ELSE 4

---------------------------------------------------------------------------
(* The state of the commands while the container model runs *)

CmdIdle ==
    /\ cmd = "none" /\ files = <<>> /\ disk = <<>> /\ pc = "idle" /\ i = 0
    /\ k = -1 /\ canonical = FALSE /\ firstFile = TRUE /\ hasDiff = TRUE
    /\ m = {} /\ pos = 0 /\ output = <<>> /\ n = 0 /\ checkInterval = 0
    /\ intervals = <<>> /\ run = 0 /\ result1 = {}

\* the state of the scans of uniqs and count while another command runs
ScanIdle ==
    /\ genome = <<>> /\ circular = FALSE /\ minLen = 1 /\ mMapped = FALSE
    /\ sortKmers = FALSE /\ rec = 0 /\ strand = 0 /\ sequence = <<>> /\ kmer = <<>>
    /\ preKmer = <<>> /\ preKcode = [Code |-> 0, K |-> 0] /\ firstKmer = TRUE
    /\ cRun = 0 /\ start = -1 /\ m2 = <<>> /\ bed = <<>> /\ enc = <<>>

\* the stream under the Writer of a command accepts every write
EnvIdle == sink = "ok" /\ faults = 0

ContainerIdle ==
    /\ writer = NoReader /\ wout = <<>> /\ wlog = <<>> /\ phase = "idle"
    /\ damage = "none" /\ file = <<>> /\ reader = NoReader /\ rin = <<>>
    /\ rerr = ErrNil /\ got = <<>>

---------------------------------------------------------------------------
(* Specification Spec: one Writer, the bytes it leaves, one Reader on them *)

Init ==
    /\ \E kk \in WriterKs : writer = NewWriter(kk)
    /\ wout = <<>> /\ wlog = <<>> /\ phase = "write" /\ damage = "none"
    /\ file = <<>> /\ reader = NoReader /\ rin = <<>> /\ rerr = ErrNil /\ got = <<>>
    /\ CmdIdle /\ ScanIdle /\ EnvIdle

\* the caller sets the public field Compact before it writes anything
SetCompact ==
    /\ phase = "write" /\ ~writer.wroteHeader /\ ~writer.Compact
    /\ writer' = [writer EXCEPT !.Compact = TRUE]
    /\ UNCHANGED <<wout, wlog, phase, damage, file, reader, rin, rerr, got, cmdVars, scanVars, envVars>>

\* writer.Write(kcode) with the writer's K or with another K
Write ==
    /\ phase = "write" /\ writer.size < MaxRecords
    /\ \E kk \in {writer.K, OtherK(writer.K)} : \E c \in SampleCodes(writer.K) :
          LET kcode == [Code |-> c, K |-> kk]
              res == WriterWrite(writer, wout, kcode)
          IN  /\ writer' = res.w
              /\ wout' = res.out
              /\ wlog' = IF res.err = ErrNil THEN Append(wlog, kcode) ELSE wlog
    /\ UNCHANGED <<phase, damage, file, reader, rin, rerr, got, cmdVars, scanVars, envVars>>

\* writer.Flush() (which does nothing) and the close of the output
Flush ==
    /\ phase = "write"
    /\ phase' = "closed"
    /\ file' = wout
    /\ UNCHANGED <<writer, wout, wlog, damage, reader, rin, rerr, got, cmdVars, scanVars, envVars>>

\* the stored bytes are cut to their first len bytes before they are read
Truncate ==
    /\ phase = "closed" /\ damage = "none"
    /\ \E len \in 0..(Len(file) - 1) : file' = SubSeq(file, 1, len)
    /\ damage' = "short"
    /\ UNCHANGED <<writer, wout, wlog, phase, reader, rin, rerr, got, cmdVars, scanVars, envVars>>

\* one byte of the magic number is changed before the bytes are read
CorruptMagic ==
    /\ phase = "closed" /\ damage = "none" /\ Len(file) >= 8
    /\ \E j \in 1..8 : \E b \in {0, file[j] + 1} :
          /\ b # file[j]
          /\ file' = [file EXCEPT ![j] = b]
    /\ damage' = "magic"
    /\ UNCHANGED <<writer, wout, wlog, phase, reader, rin, rerr, got, cmdVars, scanVars, envVars>>

\* NewReader(file)
Open ==
    /\ phase = "closed"
    /\ LET res == NewReader(file)
       IN  /\ reader' = res.reader
           /\ rerr' = res.err
           /\ rin' = res.rest
           /\ phase' = IF res.err = ErrNil THEN "read" ELSE "failed"
    /\ UNCHANGED <<writer, wout, wlog, damage, file, got, cmdVars, scanVars, envVars>>

\* reader.Read(), as the read loops call it: until it returns an error
Read ==
    /\ phase = "read"
    /\ LET res == ReaderRead(reader, rin)
       IN  /\ reader' = res.reader
           /\ rerr' = res.err
           /\ rin' = res.rest
           /\ got' = IF res.err = ErrNil THEN Append(got, res.kcode) ELSE got
           /\ phase' = IF res.err = ErrNil THEN "read" ELSE "end"
    /\ UNCHANGED <<writer, wout, wlog, damage, file, cmdVars, scanVars, envVars>>

Next == SetCompact \/ Write \/ Flush \/ Truncate \/ CorruptMagic \/ Open \/ Read

Spec == Init /\ [][Next]_vars

---------------------------------------------------------------------------
(* Specification SpecField: as Spec, and the caller may assign the public  *)
(* field Writer.Compact at any time, also between two Write calls          *)

AssignCompact ==
    /\ phase = "write"
    /\ \E b \in BOOLEAN : b # writer.Compact /\ writer' = [writer EXCEPT !.Compact = b]
    /\ UNCHANGED <<wout, wlog, phase, damage, file, reader, rin, rerr, got, cmdVars, scanVars, envVars>>

NextField == AssignCompact \/ Write \/ Flush \/ Truncate \/ CorruptMagic \/ Open \/ Read

SpecField == Init /\ [][NextField]_vars

---------------------------------------------------------------------------
(* Specification SpecReadLoop: a caller's read loop (for { reader.Read()   *)
(* ... }) on a stream that starts with the magic number and a complete     *)
(* metadata block of any minor version and any k >= 0                      *)

\* the minor versions and the k that the header of such a stream declares
StreamMinors == {1, 2, 3}
StreamHeaderKs == {0, 1, 5, 32}
\* the bytes of the stream: magic, version fields, k, then any body
StreamBytes(minor, kk, body) ==
    Magic \o PutUint64(Int64Bits(MainVersion)) \o PutUint64(Int64Bits(minor))
          \o PutUint64(Int64Bits(kk)) \o body
Streams ==
    {StreamBytes(minor, kk, body) :
        minor \in StreamMinors, kk \in StreamHeaderKs,
        body \in UNION {[1..len -> {0, 1}] : len \in 0..MaxStream}}

\* the calls that are counted: more than any stream has records
MaxCalls == MaxStream + 2

InitReadLoop ==
    /\ writer = NoReader /\ wout = <<>> /\ wlog = <<>> /\ phase = "closed"
    /\ damage = "none" /\ file \in Streams
    /\ reader = NoReader /\ rin = <<>> /\ rerr = ErrNil /\ got = <<>>
    /\ CmdIdle /\ ScanIdle /\ EnvIdle

\* one turn of the read loop: reader.Read(); the loop is left when the call
\* returns an error.  The Reader's counter and the history of codes are kept
\* up to MaxCalls.
ReadCall ==
    /\ phase = "read"
    /\ LET res == ReaderRead(reader, rin)
       IN  /\ reader' = [res.reader EXCEPT !.size = Min(@, MaxCalls)]
           /\ rerr' = res.err
           /\ rin' = res.rest
           /\ got' = IF res.err = ErrNil /\ Len(got) < MaxCalls
                     THEN Append(got, res.kcode) ELSE got
           /\ phase' = IF res.err = ErrNil THEN "read" ELSE "end"
    /\ UNCHANGED <<writer, wout, wlog, damage, file, cmdVars, scanVars, envVars>>

NextReadLoop == Open \/ ReadCall

\* the caller opens the stream and its loop goes on calling Read
SpecReadLoop ==
    InitReadLoop /\ [][NextReadLoop]_vars /\ WF_vars(Open) /\ WF_vars(ReadCall)

---------------------------------------------------------------------------
(* Specification SpecIO: one Writer on a stream whose Write may return an  *)
(* error, having taken none or some of the bytes, and accept later calls   *)
(* again (a full disk that is freed, a connection with a deadline)         *)

ErrIO == "write error"

\* what one Write call of the stream does with the bytes handed to it: all of
\* them taken and nil, or an error with the first `taken` bytes taken
Outcomes == {[ok |-> TRUE, taken |-> 0]} \cup {[ok |-> FALSE, taken |-> t] : t \in {0, 3}}

\* binary.Write(w, be, data): one w.Write call with the encoded bytes
BinaryWrite(o, bytes, oc) ==
    IF oc.ok
    THEN [out |-> o \o bytes, err |-> ErrNil]
    ELSE [out |-> o \o SubSeq(bytes, 1, Min(oc.taken, Len(bytes) - 1)), err |-> ErrIO]

\* Writer.writeHeader on such a stream: the magic number, then the three
\* fields, each with one binary.Write; the second is not tried when the first fails
WriteHeader(w, o, ocMagic, ocMeta) ==
    LET h == HeaderBytes(w)
        r1 == BinaryWrite(o, SubSeq(h, 1, 8), ocMagic)
        r2 == BinaryWrite(r1.out, SubSeq(h, 9, 32), ocMeta)
    IN  IF r1.err # ErrNil THEN r1 ELSE r2

\* Writer.Write(kcode) on such a stream; ocs are the outcomes of the stream's
\* Write calls for the magic number, the fields and the record
WriterWriteOn(w, o, kcode, ocs) ==
    IF w.K # kcode.K
    THEN [w |-> [w EXCEPT !.err = ErrKMismatch], out |-> o, err |-> ErrKMismatch]
    ELSE LET hd == IF ~w.wroteHeader
                   THEN WriteHeader(w, o, ocs[1], ocs[2])
                   ELSE [out |-> o, err |-> ErrNil]
             w1 == [w EXCEPT !.wroteHeader = TRUE]
             rc == BinaryWrite(hd.out, RecordBytes(w, kcode), ocs[3])
         IN  IF hd.err # ErrNil
             THEN [w |-> [w EXCEPT !.err = hd.err], out |-> hd.out, err |-> hd.err]
             ELSE IF rc.err # ErrNil
             THEN [w |-> [w1 EXCEPT !.err = rc.err], out |-> rc.out, err |-> rc.err]
             ELSE [w |-> [w1 EXCEPT !.err = ErrNil, !.size = @ + 1],
                   out |-> rc.out, err |-> ErrNil]

\* the k of the Writers on such a stream
StreamKs == {1, 4, 5, 32}

InitIO ==
    /\ \E kk \in StreamKs : writer = NewWriter(kk)
    /\ wout = <<>> /\ wlog = <<>> /\ phase = "write" /\ damage = "none"
    /\ file = <<>> /\ reader = NoReader /\ rin = <<>> /\ rerr = ErrNil /\ got = <<>>
    /\ CmdIdle /\ ScanIdle /\ EnvIdle

\* writer.Write(kcode), with the writer's K or with another, on such a stream
WriteIO ==
    /\ phase = "write" /\ writer.size < MaxRecords
    /\ \E kk \in {writer.K, OtherK(writer.K)} : \E c \in SampleCodes(writer.K) :
       \E ocs \in [1..3 -> Outcomes] :
          LET kcode == [Code |-> c, K |-> kk]
              res == WriterWriteOn(writer, wout, kcode, ocs)
          IN  /\ res.err = ErrIO => faults < MaxFaults
              /\ writer' = res.w
              /\ wout' = res.out
              /\ wlog' = IF res.err = ErrNil THEN Append(wlog, kcode) ELSE wlog
              /\ faults' = IF res.err = ErrIO THEN faults + 1 ELSE faults
    /\ UNCHANGED <<phase, damage, file, reader, rin, rerr, got, cmdVars, scanVars, sink>>

NextIO == SetCompact \/ WriteIO \/ Flush

SpecIO == InitIO /\ [][NextIO]_vars

---------------------------------------------------------------------------
(* The inputs of the commands.  A command sees a container through         *)
(* NewReader (its header) and Reader.Read (its codes, one per call, then   *)
(* the error of the Read call behind the last complete record); a disk     *)
(* entry is the header's K, the CANONICAL flag, the codes of the complete  *)
(* records of the body and the number of bytes left behind the last        *)
(* complete record (0 in a complete container).  Codes are small numbers   *)
(* here: the commands only compare them and use them as map keys.          *)

\* the paths on the disk of a command, and the codes their containers hold
Paths == {1, 2}
Codes == {0, 1}
Bodies == UNION {[1..len -> Codes] : len \in 0..MaxBody}
Containers(Ks) == [K : Ks, canonical : BOOLEAN, codes : Bodies, tail : {0}]
\* containers whose body may end inside a record of 8 bytes
Tails == {0, 3}
CutContainers == [K : {1}, canonical : {FALSE}, codes : Bodies, tail : Tails]
FileLists(least) == UNION {[1..len -> Paths] : len \in least..MaxFiles}

\* the k of the headers of well-formed containers
ValidKs == {1, 2}
\* the k a header may declare: readHeader accepts any int64 (file.go:117),
\* also the -1 with which the commands initialise their own k
HeaderKs == {-1, 1, 2}

\* the file of the current iteration (files[i] in Go)
CurFile == files[i + 1]

\* the Reader of a command on the container f (8-byte records) when every
\* complete record was returned, and the error of its next Read call
BodyReader(f) ==
    [MainVersion |-> MainVersion, MinorVersion |-> 1, K |-> f.K, Compact |-> FALSE,
     buf |-> <<0, 0, 0, 0, 0, 0, 0, 0>>, bufsize |-> (f.K + 3) \div 4,
     size |-> Len(f.codes)]
EndOfBody(f) == ReaderRead(BodyReader(f), [b \in 1..f.tail |-> 0]).err

\* a slip in the read loops: every error of Read ends the loop like io.EOF
ReadLoop_BreakOnAnyError(err) ==
    IF err = ErrNil THEN "body" ELSE "break"

\* the read loop of the commands on the error of reader.Read(): the loop body
\* on nil, break on io.EOF, checkError (the command ends) on any other error
ReadLoop(err) ==
    IF err = ErrNil THEN "body"
    ELSE IF err = EOF THEN "break"
    ELSE "abort"
\* the codes a sequence holds
Range(s) == {s[j] : j \in DOMAIN s}
\* the orders in which the keys of a Go map may be iterated
Orders(S) == {s \in [1..Cardinality(S) -> S] : \A a \in S : \E j \in DOMAIN s : s[j] = a}

---------------------------------------------------------------------------
(* Specification SpecUnion: the union command (src/unnamed/part_000)       *)

InitUnionWith(Cs) ==
    /\ ContainerIdle
    /\ cmd = "union"
    /\ files \in FileLists(1)
    /\ disk \in [Paths -> Cs]
    /\ pc = "loop" /\ i = 0 /\ k = -1 /\ canonical = FALSE /\ firstFile = TRUE
    /\ hasDiff = TRUE /\ m = {} /\ pos = 0 /\ output = <<>> /\ n = 0
    /\ checkInterval = 0 /\ intervals = <<>> /\ run = 0 /\ result1 = {}
    /\ ScanIdle /\ EnvIdle

\* the header checks of union: the k and the flag of the first file are kept,
\* a later file with another k or another flag ends the command (checkError)
UnionHeaderOK(hdr) ==
    IF k = -1 THEN TRUE
    ELSE IF k # hdr.K THEN FALSE
    ELSE IF hdr.canonical # canonical THEN FALSE
    ELSE TRUE

\* one iteration of the file loop up to the read loop: skip, or open and check.
\* firstFile is never assigned in union, so no argument is skipped.  Every
\* argument names a complete container, so that inStream and NewReader succeed.
UnionOpen ==
    /\ cmd = "union" /\ pc = "loop" /\ i < Len(files)
    /\ IF ~firstFile /\ CurFile = files[1]
       THEN /\ i' = i + 1
            /\ UNCHANGED <<pc, k, canonical, pos>>
       ELSE LET hdr == disk[CurFile]
            IN  /\ pc' = IF UnionHeaderOK(hdr) THEN "read" ELSE "aborted"
                /\ k' = IF k = -1 THEN hdr.K ELSE k
                /\ canonical' = IF k = -1 THEN hdr.canonical ELSE canonical
                /\ pos' = 0
                /\ UNCHANGED i
    /\ UNCHANGED <<cmd, files, disk, firstFile, hasDiff, m, output, n,
                   checkInterval, intervals, run, result1, containerVars, scanVars, envVars>>

\* writer.Write(kcode) of union, whose error is not looked at: the code reaches
\* the output unless the stream under the Writer has failed (outfh is a
\* bufio.Writer, which refuses every write after its first error)
WriteCode(out, c) == IF sink = "ok" THEN Append(out, c) ELSE out

\* a slip in the read loop: the new code is written but never inserted
UnionStep_NoInsert(mm, out, cnt, c) ==
    IF c \notin mm
    THEN [m |-> mm, output |-> WriteCode(out, c), n |-> cnt + 1]
    ELSE [m |-> mm, output |-> out, n |-> cnt]

\* union, the body of the read loop for the code kcode.Code = c:
\* the mapping, the output and the count after it
UnionStep(mm, out, cnt, c) ==
    IF c \notin mm
    THEN [m |-> mm \cup {c}, output |-> WriteCode(out, c), n |-> cnt + 1]
    ELSE [m |-> mm, output |-> out, n |-> cnt]

\* reader.Read() returns the next code of the file
UnionRead ==
    /\ cmd = "union" /\ pc = "read" /\ pos < Len(disk[CurFile].codes)
    /\ LET res == UnionStep(m, output, n, disk[CurFile].codes[pos + 1])
       IN  /\ m' = res.m
           /\ output' = res.output
           /\ n' = res.n
    /\ pos' = pos + 1
    /\ UNCHANGED <<cmd, files, disk, pc, i, k, canonical, firstFile, hasDiff,
                   checkInterval, intervals, run, result1, containerVars, scanVars, envVars>>

\* reader.Read() returns an error: on io.EOF the iteration ends with
\* flagContinue, on any other error the command ends
UnionEOF ==
    /\ cmd = "union" /\ pc = "read" /\ pos = Len(disk[CurFile].codes)
    /\ IF ReadLoop(EndOfBody(disk[CurFile])) = "break"
       THEN pc' = "loop" /\ i' = i + 1
       ELSE pc' = "aborted" /\ UNCHANGED i
    /\ UNCHANGED <<cmd, files, disk, k, canonical, firstFile, hasDiff, m, pos,
                   output, n, checkInterval, intervals, run, result1, containerVars, scanVars, envVars>>

\* the file loop is over
UnionDone ==
    /\ cmd = "union" /\ pc = "loop" /\ i = Len(files)
    /\ pc' = "done"
    /\ UNCHANGED <<cmd, files, disk, i, k, canonical, firstFile, hasDiff, m, pos,
                   output, n, checkInterval, intervals, run, result1, containerVars, scanVars, envVars>>

NextUnion == UnionOpen \/ UnionRead \/ UnionEOF \/ UnionDone

InitUnion == InitUnionWith(Containers(ValidKs))
SpecUnion == InitUnion /\ [][NextUnion]_vars

\* Specification SpecUnionIO: union on an output that may fail (a full disk):
\* from then on the stream under the Writer refuses every write
StreamFails ==
    /\ cmd = "union" /\ pc \in {"loop", "read"} /\ sink = "ok"
    /\ sink' = "failed"
    /\ UNCHANGED <<containerVars, cmdVars, scanVars, faults>>

NextUnionIO == NextUnion \/ StreamFails
SpecUnionIO == InitUnion /\ [][NextUnionIO]_vars

\* Specification SpecUnionTwice: union, and then union again on the container
\* the first run has written together with the first of its inputs

\* the mode word union hands to NewWriter: the COMPACT bit when --compact is
\* given, and no other bit
UnionMode(compact) == IF compact THEN {"COMPACT"} ELSE {}

\* the container a Writer made with that mode leaves: the flag word of the
\* header is the mode word, the body holds the codes written
WrittenContainer(kk, mode, codes) ==
    [K |-> kk, canonical |-> ("CANONICAL" \in mode), codes |-> codes, tail |-> 0]

\* the path of the output of the first run: a path that is no input path
OutPath == Cardinality(Paths) + 1

\* the first run has ended and has written a code (and with it the header);
\* union is started again on its output and its first input, in either order
UnionAgain ==
    /\ cmd = "union" /\ pc = "done" /\ run = 0 /\ output # <<>>
    /\ \E compact \in BOOLEAN :
          disk' = [p \in Paths \cup {OutPath} |->
                      IF p = OutPath
                      THEN WrittenContainer(k, UnionMode(compact), output)
                      ELSE disk[p]]
    /\ files' \in {<<OutPath, files[1]>>, <<files[1], OutPath>>}
    /\ run' = 1 /\ result1' = Range(output)
    /\ pc' = "loop" /\ i' = 0 /\ k' = -1 /\ canonical' = FALSE
    /\ m' = {} /\ pos' = 0 /\ output' = <<>> /\ n' = 0
    /\ UNCHANGED <<cmd, firstFile, hasDiff, checkInterval, intervals, containerVars,
                   scanVars, envVars>>

NextUnionTwice == NextUnion \/ UnionAgain
SpecUnionTwice == InitUnion /\ [][NextUnionTwice]_vars

---------------------------------------------------------------------------
(* Specification SpecDiff: the diff command (src/unikmer/cmd/diff.go) on   *)
(* two or more well-formed containers, run with one check interval and     *)
(* then run again, on the same arguments and the same disk, with another;  *)
(* or on a single file of any content.                                     *)
(* Specification SpecDiffRaw: the same on containers whose header may      *)
(* declare any k that readHeader accepts.                                  *)

\* diff on two or more arguments
InitDiffWith(Cs) ==
    /\ ContainerIdle
    /\ cmd = "diff"
    /\ files \in FileLists(2)
    /\ disk \in [Paths -> Cs]
    /\ intervals \in {iv \in (1..MaxInterval) \X (1..MaxInterval) : iv[1] < iv[2]}
    /\ checkInterval = intervals[1]
    /\ run = 1 /\ result1 = {}
    /\ pc = "loop" /\ i = 0 /\ k = -1 /\ canonical = FALSE /\ firstFile = TRUE
    /\ hasDiff = TRUE /\ m = <<>> /\ pos = 0 /\ output = <<>> /\ n = 0
    /\ ScanIdle /\ EnvIdle

\* the contents a single input file may have: any bytes, a container or not
RawBytes == {0, 46, 255}
RawContents ==
    UNION {[1..len -> RawBytes] : len \in 0..3}
        \cup {HeaderBytes(NewWriter(2)) \o PutUint64(<<0, 0, 0, 1>>)}

\* diff on a single argument: the file is never decoded, so it is kept as its
\* bytes (in file), and the bytes of the output file are kept in wout
InitDiffOne ==
    /\ writer = NoReader /\ wout = <<>> /\ wlog = <<>> /\ phase = "idle"
    /\ damage = "none" /\ reader = NoReader /\ rin = <<>> /\ rerr = ErrNil
    /\ got = <<>>
    /\ file \in RawContents
    /\ cmd = "diff"
    /\ \E p \in Paths : files = <<p>>
    /\ disk = <<>>
    /\ intervals \in {iv \in (1..MaxInterval) \X (1..MaxInterval) : iv[1] < iv[2]}
    /\ checkInterval = intervals[1]
    /\ run = 1 /\ result1 = {}
    /\ pc = "loop" /\ i = 0 /\ k = -1 /\ canonical = FALSE /\ firstFile = TRUE
    /\ hasDiff = TRUE /\ m = <<>> /\ pos = 0 /\ output = <<>> /\ n = 0
    /\ ScanIdle /\ EnvIdle

InitDiffOn(Ks) == InitDiffWith(Containers(Ks)) \/ InitDiffOne

\* io.Copy(outfh, infh): what reaches the output for the input bytes s
CopyStream_DropLast(s) == SubSeq(s, 1, Len(s) - 1)

CopyStream(s) == s

\* the only iteration of the file loop when a single file is given: the input
\* is copied to the output and the command returns (flagReturn)
DiffCopy ==
    /\ cmd = "diff" /\ pc = "loop" /\ i < Len(files) /\ Len(files) = 1
    /\ wout' = CopyStream(file)
    /\ pc' = "returned"
    /\ UNCHANGED <<writer, wlog, phase, damage, file, reader, rin, rerr, got,
                   cmd, files, disk, i, k, canonical, firstFile, hasDiff, m, pos,
                   output, n, checkInterval, intervals, run, result1,
                   scanVars, envVars>>

\* the header check of diff: the k of the first file is kept, a later file with
\* another k ends the command (checkError)
DiffHeaderOK(hdr) ==
    IF k = -1 THEN TRUE
    ELSE IF k # hdr.K THEN FALSE
    ELSE TRUE

\* one iteration of the file loop up to the read loop: skip, or open and check.
\* Every argument is stdin or carries the data-file suffix (else the command
\* returns at diff.go:68-71) and names a complete container, so that
\* xopen.Ropen and NewReader succeed.
DiffOpen ==
    /\ cmd = "diff" /\ pc = "loop" /\ i < Len(files) /\ Len(files) # 1
    /\ IF ~firstFile /\ CurFile = files[1]
       THEN /\ i' = i + 1
            /\ UNCHANGED <<pc, k, pos>>
       ELSE LET hdr == disk[CurFile]
            IN  /\ pc' = IF DiffHeaderOK(hdr) THEN "read" ELSE "aborted"
                /\ k' = IF k = -1 THEN hdr.K ELSE k
                /\ pos' = 0
                /\ UNCHANGED i
    /\ UNCHANGED <<cmd, files, disk, canonical, firstFile, hasDiff, m, output, n,
                   checkInterval, intervals, run, result1, containerVars, scanVars, envVars>>

\* a slip in the read loop: a code of a later file that is not a key is entered
DiffStep_InsertLater(mm, first, c) ==
    IF first \/ c \notin DOMAIN mm
    THEN [d \in DOMAIN mm \cup {c} |-> IF d = c THEN FALSE ELSE mm[d]]
    ELSE [mm EXCEPT ![c] = TRUE]

\* diff, the body of the read loop for the code kcode.Code = c: the mapping after it
DiffStep(mm, first, c) ==
    IF first
    THEN [d \in DOMAIN mm \cup {c} |-> IF d = c THEN FALSE ELSE mm[d]]
    ELSE IF c \in DOMAIN mm THEN [mm EXCEPT ![c] = TRUE] ELSE mm

\* reader.Read() returns the next code of the file
DiffRead ==
    /\ cmd = "diff" /\ pc = "read" /\ pos < Len(disk[CurFile].codes)
    /\ m' = DiffStep(m, firstFile, disk[CurFile].codes[pos + 1])
    /\ pos' = pos + 1
    /\ UNCHANGED <<cmd, files, disk, pc, i, k, canonical, firstFile, hasDiff,
                   output, n, checkInterval, intervals, run, result1, containerVars, scanVars, envVars>>

\* diff, the checkpoint policy after file idx (0-based) of nfiles: sweep or not
Checkpoint(idx, nfiles, interval) ==
    ~(interval > 1 /\ ~(idx = nfiles - 1 \/ idx % interval = 0))

\* diff, "remove seen kmers": the entries marked true are deleted
Sweep(mm) == [d \in {e \in DOMAIN mm : ~mm[e]} |-> FALSE]

NothingLeft_UpToOne(mm) == Cardinality(DOMAIN mm) <= 1

\* diff, the test behind the sweep: len(m) == 0
NothingLeft(mm) == DOMAIN mm = {}

\* reader.Read() returns an error: on io.EOF the rest of the iteration, on any
\* other error the command ends
DiffEOF ==
    /\ cmd = "diff" /\ pc = "read" /\ pos = Len(disk[CurFile].codes)
    /\ IF ReadLoop(EndOfBody(disk[CurFile])) # "break"
       THEN /\ pc' = "aborted"
            /\ UNCHANGED <<i, m, hasDiff, firstFile>>
       ELSE IF firstFile
       THEN /\ firstFile' = FALSE
            /\ pc' = "loop" /\ i' = i + 1
            /\ UNCHANGED <<m, hasDiff>>
       ELSE IF ~Checkpoint(i, Len(files), checkInterval)
       THEN /\ pc' = "loop" /\ i' = i + 1
            /\ UNCHANGED <<m, hasDiff, firstFile>>
       ELSE /\ m' = Sweep(m)
            /\ IF NothingLeft(Sweep(m))
               THEN hasDiff' = FALSE /\ pc' = "break" /\ UNCHANGED i
               ELSE pc' = "loop" /\ i' = i + 1 /\ UNCHANGED hasDiff
            /\ UNCHANGED firstFile
    /\ UNCHANGED <<cmd, files, disk, k, canonical, pos, output, n,
                   checkInterval, intervals, run, result1, containerVars, scanVars, envVars>>

\* diff, the codes the export loop hands to writer.Write: the keys of the mapping
ExportKeys(mm) == DOMAIN mm

\* after the file loop: nothing when hasDiff is false, else every key of the
\* mapping is written, in the order the map is iterated
DiffExport ==
    /\ cmd = "diff"
    /\ pc = "break" \/ (pc = "loop" /\ i = Len(files))
    /\ IF ~hasDiff
       THEN output' = <<>>
       ELSE output' \in Orders(ExportKeys(m))
    /\ pc' = "done"
    /\ UNCHANGED <<cmd, files, disk, i, k, canonical, firstFile, hasDiff, m, pos, n,
                   checkInterval, intervals, run, result1, containerVars, scanVars, envVars>>

\* the command is run a second time, with the other check interval
DiffRunAgain ==
    /\ cmd = "diff" /\ run = 1 /\ pc \in {"done", "aborted"}
    /\ result1' = Range(output)
    /\ run' = 2 /\ checkInterval' = intervals[2]
    /\ pc' = "loop" /\ i' = 0 /\ k' = -1 /\ firstFile' = TRUE /\ hasDiff' = TRUE
    /\ m' = <<>> /\ pos' = 0 /\ output' = <<>>
    /\ UNCHANGED <<cmd, files, disk, canonical, n, intervals, containerVars, scanVars, envVars>>

NextDiff == DiffCopy \/ DiffOpen \/ DiffRead \/ DiffEOF \/ DiffExport \/ DiffRunAgain

InitDiff == InitDiffOn(ValidKs)
SpecDiff == InitDiff /\ [][NextDiff]_vars

InitDiffRaw == InitDiffOn(HeaderKs)
SpecDiffRaw == InitDiffRaw /\ [][NextDiff]_vars

---------------------------------------------------------------------------
(* K-mer codes (package unikmer: NewKmerCode, NewKmerCodeMustFromFormerOne, *)
(* KmerCode.Canonical), as the scans of uniqs and count call them.  Codes   *)
(* of k <= 3 are plain numbers below 4^k.                                   *)

\* the 2-bit value of a base
Base2Bit(b) == CASE b = "A" -> 0 [] b = "C" -> 1 [] b = "G" -> 2 [] b = "T" -> 3

Pow4(e) == Pow2(2 * e)

\* Encode: the bases packed 2 bits each, the first base most significant
RECURSIVE Encode(_)
Encode(mer) ==
    IF mer = <<>> THEN 0
    ELSE Encode(SubSeq(mer, 1, Len(mer) - 1)) * 4 + Base2Bit(mer[Len(mer)])

\* NewKmerCode(kmer)
NewKmerCode(mer) == [Code |-> Encode(mer), K |-> Len(mer)]

\* the code of mer from the code of the window one base to its left: the top
\* base is dropped, the rest is shifted by 2 bits, the last base of mer is added
MustEncodeFromFormerKmer(mer, leftKmer, leftCode) ==
    (leftCode % Pow4(Len(mer) - 1)) * 4 + Base2Bit(mer[Len(mer)])

\* NewKmerCodeMustFromFormerOne(kmer, preKmer, preKcode): nothing is validated
NewKmerCodeMustFromFormerOne(mer, preMer, preCode) ==
    [Code |-> MustEncodeFromFormerKmer(mer, preMer, preCode.Code), K |-> Len(mer)]

\* the code of the reverse complement of a code of kk bases
RECURSIVE RevComp(_, _)
RevComp(code, kk) ==
    IF kk = 0 THEN 0
    ELSE (3 - (code % 4)) * Pow4(kk - 1) + RevComp(code \div 4, kk - 1)

\* KmerCode.Canonical(): the smaller of the code and its reverse complement
Canonical(kc) ==
    LET rc == RevComp(kc.Code, kc.K)
    IN  IF rc < kc.Code THEN [kc EXCEPT !.Code = rc] ELSE kc

---------------------------------------------------------------------------
(* The scan of one record, as uniqs (twice) and count spell it out         *)

\* the bases of the modelled sequences: a pair of complementary bases, so that
\* a k-mer and its reverse complement both occur
Bases == {"A", "T"}
Sequences(maxLen) == UNION {[1..len -> Bases] : len \in 0..maxLen}
\* the sequence files: one record, two short ones, or a longer record behind
\* a record of at most one base
Genomes ==
    {<<s>> : s \in Sequences(MaxSeqLen)}
        \cup {<<s, t>> : s \in Sequences(MaxShort), t \in Sequences(MaxShort)}
        \cup {<<s, t>> : s \in Sequences(MaxFirst), t \in Sequences(MaxSecond)}
\* the k of the scans
ScanKs == {2, 3}

\* end: the last value of i in the loop over the windows
LastIndex(seq) == Max(Len(seq) - 1, 0)

\* the window of iteration idx: what the loop body does before it encodes.
\* "break" ends the loop (linear record, the window would pass the end).  In a
\* circular record the window is sequence[i:] followed by sequence[0:e]; when e
\* is larger than the record, sequence[0:e] reaches behind the record's last
\* base: the run-time panics when e is larger than the slice's capacity, and
\* otherwise the bytes lying behind the record in its buffer are taken.
Windows(seq, idx, kk, circ) ==
    LET originalLen == Len(seq)
        e == idx + kk
    IN  IF e > originalLen
        THEN IF circ
             THEN IF e - originalLen <= originalLen
                  THEN {[kind |-> "kmer",
                         kmer |-> SubSeq(seq, idx + 1, originalLen)
                                     \o SubSeq(seq, 1, e - originalLen)]}
                  ELSE {[kind |-> "panic", kmer |-> <<>>]} \cup
                       {[kind |-> "kmer",
                         kmer |-> SubSeq(seq, idx + 1, originalLen) \o seq \o fill] :
                            fill \in [1..(e - 2 * originalLen) -> Bases]}
             ELSE {[kind |-> "break", kmer |-> <<>>]}
        ELSE {[kind |-> "kmer", kmer |-> SubSeq(seq, idx + 1, idx + kk)]}

\* a slip in the scans: the canonical code is kept for the incremental encoder
EncodeWindow_FromCanonical(mer, isFirst, preMer, preCode) ==
    IF isFirst THEN NewKmerCode(mer)
    ELSE NewKmerCodeMustFromFormerOne(mer, preMer, Canonical(preCode))

\* the code of the window: encoded directly for the first window of a record,
\* else from the window and the code of the iteration before
EncodeWindow(mer, isFirst, preMer, preCode) ==
    IF isFirst THEN NewKmerCode(mer)
    ELSE NewKmerCodeMustFromFormerOne(mer, preMer, preCode)

\* the history of an encoder call
EncCall(mer, idx, kc) ==
    [kmer |-> mer, first |-> firstKmer, preKmer |-> preKmer, preKcode |-> preKcode,
     kcode |-> kc, i |-> idx]

---------------------------------------------------------------------------
(* Specification SpecUniqs: the uniqs command (src/unikmer/cmd/uniqs.go)   *)

\* the containers of k-mers that uniqs loads: codes of k-mers over A and T,
\* canonical (0, 3, 12) or not (15)
UniqBodies == {<<0>>, <<3, 12>>, <<15, 3>>, <<0, 3, 12>>}
UniqContainers == [K : ScanKs, canonical : BOOLEAN, codes : UniqBodies, tail : {0}]
\* the options of uniqs
UniqOptions == [circular : BOOLEAN, minLen : 1..MaxMinLen, mMapped : BOOLEAN]

InitUniqsWith(Fs, Ds, Gs, Os) ==
    /\ ContainerIdle /\ EnvIdle
    /\ cmd = "uniqs"
    /\ files \in Fs
    /\ disk \in Ds
    /\ genome \in Gs
    /\ \E o \in Os : circular = o.circular /\ minLen = o.minLen /\ mMapped = o.mMapped
    /\ pc = "loop" /\ i = 0 /\ k = -1 /\ canonical = FALSE /\ firstFile = TRUE
    /\ hasDiff = TRUE /\ m = {} /\ pos = 0 /\ output = <<>> /\ n = 0
    /\ checkInterval = 0 /\ intervals = <<>> /\ run = 0 /\ result1 = {}
    /\ sortKmers = FALSE /\ rec = 0 /\ strand = 0 /\ sequence = <<>> /\ kmer = <<>>
    /\ preKmer = <<>> /\ preKcode = [Code |-> 0, K |-> 0] /\ firstKmer = TRUE
    /\ cRun = 0 /\ start = -1 /\ m2 = <<>> /\ bed = <<>> /\ enc = <<>>

\* the header checks of uniqs: the k and the flag of the first file are kept, a
\* later file with another k or another flag ends the command (checkError)
UniqsHeaderOK(hdr) ==
    IF k = -1 THEN TRUE
    ELSE IF k # hdr.K THEN FALSE
    ELSE IF hdr.canonical # canonical THEN FALSE
    ELSE TRUE

\* one iteration of the file loop up to the read loop.  Every argument names a
\* file with a complete header, so that inStream and NewReader succeed.
UniqsOpen ==
    /\ cmd = "uniqs" /\ pc = "loop" /\ i < Len(files)
    /\ LET hdr == disk[CurFile]
       IN  /\ pc' = IF UniqsHeaderOK(hdr) THEN "read" ELSE "aborted"
           /\ k' = IF k = -1 THEN hdr.K ELSE k
           /\ canonical' = IF k = -1 THEN hdr.canonical ELSE canonical
           /\ pos' = 0
    /\ UNCHANGED <<cmd, files, disk, i, firstFile, hasDiff, m, output, n,
                   checkInterval, intervals, run, result1, containerVars, scanVars,
                   envVars>>

\* uniqs, the body of a read loop: the code is kept as it is when the files are
\* flagged canonical, else its canonical code is kept
UniqsKey(code) ==
    IF canonical THEN code ELSE Canonical([Code |-> code, K |-> k]).Code

\* reader.Read() returns the next code of the file
UniqsRead ==
    /\ cmd = "uniqs" /\ pc = "read" /\ pos < Len(disk[CurFile].codes)
    /\ m' = m \cup {UniqsKey(disk[CurFile].codes[pos + 1])}
    /\ pos' = pos + 1
    /\ UNCHANGED <<cmd, files, disk, pc, i, k, canonical, firstFile, hasDiff, output,
                   n, checkInterval, intervals, run, result1, containerVars, scanVars,
                   envVars>>

\* reader.Read() returns an error: on io.EOF the next file, else the command ends
UniqsEOF ==
    /\ cmd = "uniqs" /\ pc = "read" /\ pos = Len(disk[CurFile].codes)
    /\ IF ReadLoop(EndOfBody(disk[CurFile])) = "break"
       THEN pc' = "loop" /\ i' = i + 1
       ELSE pc' = "aborted" /\ UNCHANGED i
    /\ UNCHANGED <<cmd, files, disk, k, canonical, firstFile, hasDiff, m, pos, output,
                   n, checkInterval, intervals, run, result1, containerVars, scanVars,
                   envVars>>

\* the file loop is over: the pre-scan of the genome when multiple mapped k-mers
\* are not allowed, else the scan
UniqsLoaded ==
    /\ cmd = "uniqs" /\ pc = "loop" /\ i = Len(files)
    /\ pc' = IF ~mMapped THEN "prescan" ELSE "scan"
    /\ i' = 0 /\ rec' = 0 /\ m2' = <<>>
    /\ UNCHANGED <<cmd, files, disk, k, canonical, firstFile, hasDiff, m, pos, output,
                   n, checkInterval, intervals, run, result1, containerVars, envVars,
                   genome, circular, minLen, mMapped, sortKmers, strand, sequence,
                   kmer, preKmer, preKcode, firstKmer, cRun, start, bed, enc>>

\* pre-scan: fastxReader.Read() returns the next record of the genome
PreRecord ==
    /\ cmd = "uniqs" /\ pc = "prescan" /\ rec < Len(genome)
    /\ sequence' = genome[rec + 1] /\ rec' = rec + 1
    /\ firstKmer' = TRUE /\ i' = 0
    /\ pc' = "prewin"
    /\ UNCHANGED <<cmd, files, disk, k, canonical, firstFile, hasDiff, m, pos, output,
                   n, checkInterval, intervals, run, result1, containerVars, envVars,
                   genome, circular, minLen, mMapped, sortKmers, strand,
                   kmer, preKmer, preKcode, cRun, start, m2, bed, enc>>

\* pre-scan, the count of one window: a code seen for the first time is entered
\* as false, a code seen again becomes true
CountSeen(mm, code) ==
    IF code \notin DOMAIN mm
    THEN [d \in DOMAIN mm \cup {code} |-> IF d = code THEN FALSE ELSE mm[d]]
    ELSE [mm EXCEPT ![code] = TRUE]

\* pre-scan: one iteration of the loop over the windows of the record
PreWindow ==
    /\ cmd = "uniqs" /\ pc = "prewin"
    /\ IF i > LastIndex(sequence)
       THEN /\ pc' = "prescan"
            /\ UNCHANGED <<i, kmer, preKmer, preKcode, firstKmer, m2, enc>>
       ELSE \E w \in Windows(sequence, i, k, circular) :
              IF w.kind = "break"
              THEN /\ pc' = "prescan"
                   /\ UNCHANGED <<i, kmer, preKmer, preKcode, firstKmer, m2, enc>>
              ELSE IF w.kind = "panic"
              THEN /\ pc' = "aborted"
                   /\ UNCHANGED <<i, kmer, preKmer, preKcode, firstKmer, m2, enc>>
              ELSE LET kc == EncodeWindow(w.kmer, firstKmer, preKmer, preKcode)
                   IN  /\ kmer' = w.kmer /\ firstKmer' = FALSE
                       /\ preKmer' = w.kmer /\ preKcode' = kc
                       /\ enc' = EncCall(w.kmer, i, kc)
                       /\ m2' = CountSeen(m2, Canonical(kc).Code)
                       /\ i' = i + 1
                       /\ UNCHANGED pc
    /\ UNCHANGED <<cmd, files, disk, k, canonical, firstFile, hasDiff, m, pos, output,
                   n, checkInterval, intervals, run, result1, containerVars, envVars,
                   genome, circular, minLen, mMapped, sortKmers, rec, strand, sequence,
                   cRun, start, bed>>

\* pre-scan, the pruning: the codes seen once are deleted
Prune(mm) == [d \in {e \in DOMAIN mm : mm[e]} |-> TRUE]

\* pre-scan: fastxReader.Read() returns io.EOF; the mapping is pruned and the
\* genome is opened again for the scan
PreDone ==
    /\ cmd = "uniqs" /\ pc = "prescan" /\ rec = Len(genome)
    /\ m2' = Prune(m2)
    /\ rec' = 0 /\ pc' = "scan"
    /\ UNCHANGED <<cmd, files, disk, i, k, canonical, firstFile, hasDiff, m, pos,
                   output, n, checkInterval, intervals, run, result1, containerVars,
                   envVars, genome, circular, minLen, mMapped, sortKmers, strand,
                   sequence, kmer, preKmer, preKcode, firstKmer, cRun, start, bed, enc>>

\* scan: fastxReader.Read() returns the next record of the genome
ScanRecord ==
    /\ cmd = "uniqs" /\ pc = "scan" /\ rec < Len(genome)
    /\ sequence' = genome[rec + 1] /\ rec' = rec + 1
    /\ cRun' = 0 /\ start' = -1
    /\ firstKmer' = TRUE /\ i' = 0
    /\ pc' = "scanwin"
    /\ UNCHANGED <<cmd, files, disk, k, canonical, firstFile, hasDiff, m, pos, output,
                   n, checkInterval, intervals, run, result1, containerVars, envVars,
                   genome, circular, minLen, mMapped, sortKmers, strand,
                   kmer, preKmer, preKcode, m2, bed, enc>>

\* scan: the interval [start, i) is written when a run has started and the
\* interval has min-len bases
Emit(b, st, idx) ==
    IF st >= 0 /\ idx - st >= minLen THEN Append(b, <<rec, st, idx>>) ELSE b

\* scan: the window's code is in the loaded set and keeps a run going
Qualifies(code) ==
    /\ code \in m
    /\ mMapped \/ ~(code \in DOMAIN m2 /\ m2[code])

\* a slip in the scan: a run starts with its first window
RunStep_StartAtOnce(cn, st, idx, b, good) ==
    IF good
    THEN [c |-> cn + 1, start |-> IF cn + 1 = 1 THEN idx ELSE st, bed |-> b]
    ELSE [c |-> 0, start |-> -1, bed |-> Emit(b, st, idx)]

\* scan, the run counter for the window at idx: a window that keeps the run
\* going is counted, and the k-th of them in a row sets start; any other window
\* writes the interval that is open and resets c and start
RunStep(cn, st, idx, b, good) ==
    IF good
    THEN [c |-> cn + 1, start |-> IF cn + 1 = k THEN idx ELSE st, bed |-> b]
    ELSE [c |-> 0, start |-> -1, bed |-> Emit(b, st, idx)]

\* scan: one iteration of the loop over the windows of the record; behind the
\* loop the interval that is still open is written
ScanWindow ==
    /\ cmd = "uniqs" /\ pc = "scanwin"
    /\ IF i > LastIndex(sequence)
       THEN /\ bed' = Emit(bed, start, i)
            /\ pc' = "scan"
            /\ UNCHANGED <<i, kmer, preKmer, preKcode, firstKmer, cRun, start, enc>>
       ELSE \E w \in Windows(sequence, i, k, circular) :
              IF w.kind = "break"
              THEN /\ bed' = Emit(bed, start, i)
                   /\ pc' = "scan"
                   /\ UNCHANGED <<i, kmer, preKmer, preKcode, firstKmer, cRun, start, enc>>
              ELSE IF w.kind = "panic"
              THEN /\ pc' = "aborted"
                   /\ UNCHANGED <<i, kmer, preKmer, preKcode, firstKmer, cRun, start,
                                  bed, enc>>
              ELSE LET kc == EncodeWindow(w.kmer, firstKmer, preKmer, preKcode)
                       res == RunStep(cRun, start, i, bed, Qualifies(Canonical(kc).Code))
                   IN  /\ kmer' = w.kmer /\ firstKmer' = FALSE
                       /\ preKmer' = w.kmer /\ preKcode' = kc
                       /\ enc' = EncCall(w.kmer, i, kc)
                       /\ cRun' = res.c /\ start' = res.start /\ bed' = res.bed
                       /\ i' = i + 1
                       /\ UNCHANGED pc
    /\ UNCHANGED <<cmd, files, disk, k, canonical, firstFile, hasDiff, m, pos, output,
                   n, checkInterval, intervals, run, result1, containerVars, envVars,
                   genome, circular, minLen, mMapped, sortKmers, rec, strand, sequence,
                   m2>>

\* scan: fastxReader.Read() returns io.EOF
ScanDone ==
    /\ cmd = "uniqs" /\ pc = "scan" /\ rec = Len(genome)
    /\ pc' = "done"
    /\ UNCHANGED <<cmd, files, disk, i, k, canonical, firstFile, hasDiff, m, pos,
                   output, n, checkInterval, intervals, run, result1, containerVars,
                   envVars, scanVars>>

NextUniqs ==
    \/ UniqsOpen \/ UniqsRead \/ UniqsEOF \/ UniqsLoaded
    \/ PreRecord \/ PreWindow \/ PreDone
    \/ ScanRecord \/ ScanWindow \/ ScanDone

\* one file of k-mers (the same container under every path)
InitUniqs ==
    InitUniqsWith({<<1>>}, {[p \in Paths |-> f] : f \in UniqContainers},
                  Genomes, UniqOptions)

SpecUniqs == InitUniqs /\ [][NextUniqs]_vars

\* Specification SpecUniqsAnyK: the same with k-mers of one base as well
AnyKContainers == [K : {1} \cup ScanKs, canonical : BOOLEAN, codes : UniqBodies, tail : {0}]
InitUniqsAnyK ==
    InitUniqsWith({<<1>>}, {[p \in Paths |-> f] : f \in AnyKContainers},
                  Genomes, UniqOptions)
SpecUniqsAnyK == InitUniqsAnyK /\ [][NextUniqs]_vars

---------------------------------------------------------------------------
(* Specification SpecCount: the count command (src/unikmer/cmd/diff.go,    *)
(* countCmd) on sequence files; the stream under its Writer accepts every  *)
(* write.  Specification SpecScan: uniqs or count.                         *)

\* the argument lists of count: one sequence file, or a file of one record
\* given twice
SeqFileLists == {<<1>>, <<1, 1>>}

InitCount ==
    /\ ContainerIdle /\ EnvIdle
    /\ cmd = "count"
    /\ files \in SeqFileLists
    /\ disk = <<>>
    /\ genome \in {g \in Genomes : Len(files) = 1 \/ Len(g) = 1}
    /\ k \in ScanKs
    /\ circular \in BOOLEAN /\ canonical \in BOOLEAN /\ sortKmers \in BOOLEAN
    /\ minLen = 1 /\ mMapped = FALSE
    /\ pc = "loop" /\ i = 0 /\ firstFile = TRUE
    /\ hasDiff = TRUE /\ m = {} /\ pos = 0 /\ output = <<>> /\ n = 0
    /\ checkInterval = 0 /\ intervals = <<>> /\ run = 0 /\ result1 = {}
    /\ rec = 0 /\ strand = 0 /\ sequence = <<>> /\ kmer = <<>>
    /\ preKmer = <<>> /\ preKcode = [Code |-> 0, K |-> 0] /\ firstKmer = TRUE
    /\ cRun = 0 /\ start = -1 /\ m2 = <<>> /\ bed = <<>> /\ enc = <<>>

\* the file loop: fastx.NewDefaultReader on the next sequence file (pos counts
\* the files opened)
CountOpen ==
    /\ cmd = "count" /\ pc = "loop" /\ pos < Len(files)
    /\ pos' = pos + 1 /\ rec' = 0
    /\ pc' = "record"
    /\ UNCHANGED <<cmd, files, disk, i, k, canonical, firstFile, hasDiff, m, output,
                   n, checkInterval, intervals, run, result1, containerVars, envVars,
                   genome, circular, minLen, mMapped, sortKmers, strand, sequence,
                   kmer, preKmer, preKcode, firstKmer, cRun, start, m2, bed, enc>>

\* iters: the record alone when only canonical k-mers are kept, else the
\* record and its reverse complement
Iters == IF canonical THEN 1 ELSE 2

\* fastxReader.Read() returns the next record: j = 0, the record as it is
CountRecord ==
    /\ cmd = "count" /\ pc = "record" /\ rec < Len(genome)
    /\ rec' = rec + 1 /\ strand' = 0
    /\ sequence' = genome[rec + 1]
    /\ firstKmer' = TRUE /\ i' = 0
    /\ pc' = "win"
    /\ UNCHANGED <<cmd, files, disk, k, canonical, firstFile, hasDiff, m, pos, output,
                   n, checkInterval, intervals, run, result1, containerVars, envVars,
                   genome, circular, minLen, mMapped, sortKmers,
                   kmer, preKmer, preKcode, cRun, start, m2, bed, enc>>

\* fastxReader.Read() returns io.EOF: the next file
CountEOF ==
    /\ cmd = "count" /\ pc = "record" /\ rec = Len(genome)
    /\ pc' = "loop"
    /\ UNCHANGED <<cmd, files, disk, i, k, canonical, firstFile, hasDiff, m, pos,
                   output, n, checkInterval, intervals, run, result1, containerVars,
                   envVars, scanVars>>

\* record.Seq.RevComInplace(): the bases complemented, in reverse order
Complement(b) == CASE b = "A" -> "T" [] b = "C" -> "G" [] b = "G" -> "C" [] b = "T" -> "A"
RevCom(seq) == [q \in 1..Len(seq) |-> Complement(seq[Len(seq) + 1 - q])]

\* a slip in the loop body: with --sort the code is also written at once
CountStep_WriteAtOnce(mm, kept, out, cnt, code) ==
    IF code \notin mm
    THEN [m |-> mm \cup {code}, m2 |-> IF sortKmers THEN Append(kept, code) ELSE kept,
          output |-> Append(out, code), n |-> cnt + 1]
    ELSE [m |-> mm, m2 |-> kept, output |-> out, n |-> cnt]

\* count, the end of the loop body: a code not seen before is entered into m
\* and kept for sorting or written at once
CountStep(mm, kept, out, cnt, code) ==
    IF code \notin mm
    THEN IF sortKmers
         THEN [m |-> mm \cup {code}, m2 |-> Append(kept, code), output |-> out, n |-> cnt]
         ELSE [m |-> mm \cup {code}, m2 |-> kept, output |-> Append(out, code),
               n |-> cnt + 1]
    ELSE [m |-> mm, m2 |-> kept, output |-> out, n |-> cnt]

\* one iteration of the loop over the windows; behind the loop the next j
CountWindow ==
    /\ cmd = "count" /\ pc = "win"
    /\ LET leave ==
               /\ IF strand + 1 < Iters
                  THEN /\ strand' = strand + 1
                       /\ sequence' = RevCom(sequence)
                       /\ firstKmer' = TRUE /\ i' = 0
                       /\ UNCHANGED pc
                  ELSE /\ pc' = "record"
                       /\ UNCHANGED <<strand, sequence, firstKmer, i>>
               /\ UNCHANGED <<kmer, preKmer, preKcode, enc, m, m2, output, n>>
       IN  IF i > LastIndex(sequence)
           THEN leave
           ELSE \E w \in Windows(sequence, i, k, circular) :
                  IF w.kind = "break"
                  THEN leave
                  ELSE IF w.kind = "panic"
                  THEN /\ pc' = "aborted"
                       /\ UNCHANGED <<strand, sequence, firstKmer, i, kmer, preKmer,
                                      preKcode, enc, m, m2, output, n>>
                  ELSE LET kc == EncodeWindow(w.kmer, firstKmer, preKmer, preKcode)
                           kcode == IF canonical THEN Canonical(kc) ELSE kc
                           res == CountStep(m, m2, output, n, kcode.Code)
                       IN  /\ kmer' = w.kmer /\ firstKmer' = FALSE
                           /\ preKmer' = w.kmer /\ preKcode' = kc
                           /\ enc' = EncCall(w.kmer, i, kc)
                           /\ m' = res.m /\ m2' = res.m2
                           /\ output' = res.output /\ n' = res.n
                           /\ i' = i + 1
                           /\ UNCHANGED <<pc, strand, sequence>>
    /\ UNCHANGED <<cmd, files, disk, k, canonical, firstFile, hasDiff, pos,
                   checkInterval, intervals, run, result1, containerVars, envVars,
                   genome, circular, minLen, mMapped, sortKmers, rec, cRun, start, bed>>

\* sort.Sort(unikmer.CodeSlice(m2)): the codes in increasing order
RECURSIVE SortCodes(_)
SortCodes(codes) ==
    IF codes = <<>> THEN <<>>
    ELSE LET least == CHOOSE a \in DOMAIN codes :
                          \A b \in DOMAIN codes :
                              codes[a] < codes[b] \/ (codes[a] = codes[b] /\ a <= b)
         IN  <<codes[least]>> \o
             SortCodes(SubSeq(codes, 1, least - 1) \o SubSeq(codes, least + 1, Len(codes)))

\* behind the file loop: with --sort the kept codes are sorted and written
CountFinish ==
    /\ cmd = "count" /\ pc = "loop" /\ pos = Len(files)
    /\ IF sortKmers
       THEN /\ n' = Len(m2)
            /\ m2' = SortCodes(m2)
            /\ output' = output \o SortCodes(m2)
       ELSE UNCHANGED <<n, m2, output>>
    /\ pc' = "done"
    /\ UNCHANGED <<cmd, files, disk, i, k, canonical, firstFile, hasDiff, m, pos,
                   checkInterval, intervals, run, result1, containerVars, envVars,
                   genome, circular, minLen, mMapped, sortKmers, rec, strand, sequence,
                   kmer, preKmer, preKcode, firstKmer, cRun, start, bed, enc>>

NextCount == CountOpen \/ CountRecord \/ CountEOF \/ CountWindow \/ CountFinish

SpecCount == InitCount /\ [][NextCount]_vars

InitScan == InitUniqs \/ InitCount
NextScan == NextUniqs \/ NextCount
SpecScan == InitScan /\ [][NextScan]_vars

---------------------------------------------------------------------------
(* Specification SpecTruncated: the read loops of union, diff and uniqs on *)
(* containers of one k whose body may end inside a record                  *)

InitTruncated ==
    \/ InitUnionWith(CutContainers)
    \/ InitDiffWith(CutContainers)
    \/ InitUniqsWith(FileLists(1), [Paths -> CutContainers], {<<>>},
                     {[circular |-> FALSE, minLen |-> 1, mMapped |-> TRUE]})

NextTruncated ==
    \/ UnionOpen \/ UnionRead \/ UnionEOF \/ UnionDone
    \/ DiffOpen \/ DiffRead \/ DiffEOF \/ DiffExport \/ DiffRunAgain
    \/ UniqsOpen \/ UniqsRead \/ UniqsEOF \/ UniqsLoaded

SpecTruncated == InitTruncated /\ [][NextTruncated]_vars

---------------------------------------------------------------------------
(* Claims about the container *)

BeginsWithMagic(s) == Len(s) >= 8 /\ \A j \in 1..8 : s[j] = Magic[j]

\* the minor_version and the k announced by the header at the front of s
HeaderMinor(s) == IntOfBits(Uint64(SubSeq(s, 17, 24)))
HeaderK(s) == IntOfBits(Uint64(SubSeq(s, 25, 32)))

\* the width of a body record under a header with this minor_version and k
RecordWidth(minor, kk) == IF minor = 2 THEN (kk + 3) \div 4 ELSE 8

\* no Write call was made on the writer
NoWriteCall == writer.size = 0 /\ writer.err = ErrNil /\ ~writer.wroteHeader

\* C4, as claimed: a Writer that is finished without any Write call leaves the
\* 32 bytes of magic and metadata, never zero bytes, so that a Reader opens the
\* output and its first Read reports end-of-stream.
C4_EmptyResultIsHeaderOnly ==
    (phase # "write" /\ damage = "none" /\ NoWriteCall) =>
        /\ Len(file) = 32 /\ BeginsWithMagic(file)
        /\ phase # "failed"
        /\ (phase = "end" => rerr = EOF /\ got = <<>>)

\* C5: a non-empty sequence of codes with K = k, written by one Writer in compact
\* or in fixed mode and read back from the untouched output, comes back the same:
\* same codes, same K, same order, then end-of-stream; the output holds the
\* header and one record of floor((k+3)/4) bytes (compact) or 8 bytes (fixed)
\* per code.
C5_RoundTrip ==
    (phase \in {"read", "end"} /\ damage = "none" /\ wlog # <<>>) =>
        /\ Len(got) <= Len(wlog)
        /\ got = SubSeq(wlog, 1, Len(got))
        /\ \A j \in 1..Len(got) : got[j].K = writer.K
        /\ Len(file) = 32 + Len(wlog) *
                (IF writer.Compact THEN (writer.K + 3) \div 4 ELSE 8)
        /\ (phase = "end" => rerr = EOF /\ got = wlog)

\* C5 witness: two codes of k = 32, 0x0123456789ABCDEF and then 4^32 - 1,
\* written in compact mode and read back up to end-of-stream.
C5_Witness ==
    /\ phase = "end" /\ damage = "none" /\ writer.K = 32 /\ writer.Compact
    /\ Len(wlog) = 2 /\ wlog[2].Code = <<65535, 65535, 65535, 65535>>
    /\ wlog[1].Code = <<291, 17767, 35243, 52719>>
    /\ got = wlog

\* C6, as claimed: every body record has the width the header's minor_version
\* announces (8 bytes for 1, floor((k+3)/4) bytes for 2), whatever was done to
\* the Writer, assignments to its Compact field between Write calls included.
C6_OneRepresentation ==
    writer.wroteHeader =>
        Len(wout) = 32 + writer.size * RecordWidth(HeaderMinor(wout), HeaderK(wout))

\* C7, as claimed: opening a stream that does not begin with the 8 magic bytes
\* (a differing byte, or fewer than 8 bytes) fails with ErrInvalidFileFormat and
\* returns no Reader.
C7_InvalidMagicOriginal ==
    (phase \notin {"write", "closed"} /\ ~BeginsWithMagic(file)) =>
        phase = "failed" /\ reader = NoReader /\ rerr = ErrInvalidFileFormat

\* C7, amended: opening a stream that does not begin with the 8 magic bytes
\* returns no Reader and an error: ErrInvalidFileFormat when the stream has at
\* least 8 bytes, io.EOF when it is empty, io.ErrUnexpectedEOF when it has 1 to
\* 7 bytes.
C7_InvalidMagic ==
    (phase \notin {"write", "closed"} /\ ~BeginsWithMagic(file)) =>
        /\ phase = "failed" /\ reader = NoReader /\ got = <<>>
        /\ rerr = IF Len(file) >= 8 THEN ErrInvalidFileFormat
                  ELSE IF Len(file) = 0 THEN EOF ELSE ErrUnexpectedEOF

\* C7 witness: a stream with a complete header and a record whose magic differs
\* in its last byte only has been opened and refused.
C7_Witness ==
    /\ phase = "failed" /\ Len(file) > 32
    /\ SubSeq(file, 1, 7) = SubSeq(Magic, 1, 7) /\ file[8] # Magic[8]
    /\ rerr = ErrInvalidFileFormat /\ reader = NoReader

\* C8: a Write with a K that is not the writer's returns ErrKMismatch and emits
\* no byte, and leaves wroteHeader and the record count as they were; the next
\* Write with the writer's K, when no header was written before, emits the header
\* first and its record after it.
C8_KMismatchChangesNothing ==
    [][ /\ (writer'.err = ErrKMismatch =>
               /\ wout' = wout
               /\ writer'.wroteHeader = writer.wroteHeader
               /\ writer'.size = writer.size)
        /\ (writer.err = ErrKMismatch /\ ~writer.wroteHeader
               /\ writer'.size = writer.size + 1 =>
               /\ wout = <<>>
               /\ BeginsWithMagic(wout') /\ HeaderK(wout') = writer.K
               /\ Len(wout') = 32 + RecordWidth(HeaderMinor(wout'), writer.K)
               /\ writer'.wroteHeader) ]_vars

\* C8 witness: a Write was refused with ErrKMismatch before any header was
\* written, and nothing has been emitted.
C8_Witness ==
    /\ phase = "write" /\ writer.err = ErrKMismatch
    /\ ~writer.wroteHeader /\ writer.size = 0 /\ wout = <<>>

---------------------------------------------------------------------------
(* Claims about the commands *)

\* the codes of the container at position j of the argument list
CodesAt(j) == Range(disk[files[j]].codes)
\* the codes of all listed containers, in argument order, then in file order
RECURSIVE Concat(_)
Concat(j) == IF j = 0 THEN <<>> ELSE Concat(j - 1) \o disk[files[j]].codes
\* the index of the first occurrence of c in s
FirstIndex(c, s) == CHOOSE j \in DOMAIN s : s[j] = c /\ \A l \in 1..(j - 1) : s[l] # c
\* every listed container has the k, and the CANONICAL flag, of the first one
SameK == \A j \in DOMAIN files : disk[files[j]].K = disk[files[1]].K
SameFlag == \A j \in DOMAIN files : disk[files[j]].canonical = disk[files[1]].canonical

\* C1, as claimed: diff on a list of two or more files (the same path may be
\* listed more than once) ends with the same set of output codes under any two
\* check intervals.
C1_CheckpointInvariance ==
    (cmd = "diff" /\ run = 2 /\ pc \in {"done", "aborted"}) => Range(output) = result1

\* C2, as claimed: on two or more files of equal k, diff writes exactly the codes
\* of the first file that occur in no other listed file (read here in the way
\* most favourable to the code: a later entry that names the first file's path
\* does not count as another file); no code marked as seen in a later file is
\* written.
C2_DiffResult ==
    (cmd = "diff" /\ pc = "done" /\ SameK) =>
        /\ Range(output) =
              CodesAt(1) \ UNION {CodesAt(j) : j \in {l \in 2..Len(files) : files[l] # files[1]}}
        /\ \A c \in Range(output) : c \in DOMAIN m /\ ~m[c]

\* C3: on files of equal k and equal CANONICAL flag union runs to its end, and
\* the codes it has then written are the codes that occur in some input, each
\* exactly once, in the order of their first occurrence when the inputs are read
\* in argument order.
C3_UnionResult ==
    (cmd = "union" /\ SameK /\ SameFlag) =>
        /\ pc # "aborted"
        /\ pc = "done" =>
              LET all == Concat(Len(files))
              IN  /\ Range(output) = Range(all)
                  /\ \A a, b \in DOMAIN output : output[a] = output[b] => a = b
                  /\ \A a, b \in DOMAIN output :
                        a < b => FirstIndex(output[a], all) < FirstIndex(output[b], all)

\* C3 witness: union has ended on three arguments, the first path listed twice,
\* whose containers repeat codes within and across files.
C3_Witness ==
    /\ cmd = "union" /\ pc = "done" /\ Len(files) = 3 /\ files[3] = files[1]
    /\ disk[files[1]].codes = <<1, 1>> /\ disk[files[2]].codes = <<1, 0>>
    /\ output = <<1, 0>>

\* C9, as claimed: in union and in diff, an input whose CANONICAL flag differs
\* from the first input's ends the command before any code of that input is read.
C9_CanonicalMismatchFatal ==
    (cmd \in {"union", "diff"} /\ pc = "read" /\ pos > 0) =>
        disk[CurFile].canonical = disk[files[1]].canonical

\* C10, as claimed: an opened file whose header k differs from the k of the first
\* opened file ends the command before any code of that file is read, inserted,
\* marked or written.
C10_KMismatchFatal ==
    (cmd \in {"union", "diff"} /\ pc = "read" /\ pos > 0) =>
        disk[CurFile].K = disk[files[1]].K

\* a Reader of the given k and mode, and t bytes of a stream
ReaderOf(kk, compact) ==
    [MainVersion |-> MainVersion, MinorVersion |-> IF compact THEN 2 ELSE 1,
     K |-> kk, Compact |-> compact, buf |-> <<0, 0, 0, 0, 0, 0, 0, 0>>,
     bufsize |-> (kk + 3) \div 4, size |-> 0]
Zeros(t) == [b \in 1..t |-> 0]

\* Read on the last t bytes of a stream, for every k, both modes and every t up
\* to the width of a record: end-of-stream exactly when t = 0, another error
\* and no code when 0 < t < width, a code when t = width
ReadAtEnd ==
    \A kk \in WriterKs : \A compact \in BOOLEAN :
        LET rd == ReaderOf(kk, compact)
            width == IF compact THEN rd.bufsize ELSE 8
        IN  \A t \in 0..width :
                LET res == ReaderRead(rd, Zeros(t))
                IN  /\ res.err = EOF <=> t = 0
                    /\ res.err = ErrNil <=> t = width
                    /\ res.err # ErrNil =>
                          res.kcode = [Code |-> <<0, 0, 0, 0>>, K |-> 0]
                              /\ res.reader.size = rd.size

\* C11: Read returns end-of-stream exactly when the stream ends at a record
\* boundary, and another error and no code when it ends inside a record; so
\* every file whose read loop union, diff or uniqs has left as complete ends at
\* a record boundary, and the codes a command holds come from complete records.
C11_EndOfStreamIsNotFailure ==
    /\ ReadAtEnd
    /\ (cmd \in {"union", "diff", "uniqs"} /\ pc \in {"loop", "read", "break", "done"}) =>
          /\ \A f \in 1..i : disk[files[f]].tail = 0
          /\ (cmd = "diff" /\ pc \in {"break", "done"} /\ i < Len(files)) =>
                disk[CurFile].tail = 0
    /\ (cmd = "uniqs" /\ pc \in {"prescan", "scan"}) =>
          \A f \in DOMAIN files : disk[files[f]].tail = 0

\* C11 witness: diff has ended itself at the end of its second file, whose body
\* holds two records and three bytes more; the first file was read to its end.
C11_Witness ==
    /\ cmd = "diff" /\ pc = "aborted" /\ i = 1
    /\ disk[files[1]].tail = 0 /\ disk[files[2]].tail = 3
    /\ pos = 2 /\ Len(disk[files[2]].codes) = 2

---------------------------------------------------------------------------
(* Claims about uniqs and count.  The windows of a record are described    *)
(* here from the record alone: position p of a record of length L holds    *)
(* the k bases from p on, continued at the front of a circular record.     *)

\* P: the number of window positions of a record
NumWindows(seq, kk, circ) ==
    IF circ THEN Len(seq) ELSE Max(Len(seq) - kk + 1, 0)
\* the window at position p (0-based) of a record
WindowAt(seq, p, kk) == [q \in 1..kk |-> seq[((p + q - 1) % Len(seq)) + 1]]
\* the canonical code of the window at position p of record r (1-based)
CodeAt(r, p) == Canonical(NewKmerCode(WindowAt(genome[r], p, k))).Code
\* the window positions of the genome: <<record, position>>
Positions ==
    UNION {{<<r, p>> : p \in 0..(NumWindows(genome[r], k, circular) - 1)} :
              r \in DOMAIN genome}
\* the number of window positions of the genome that hold the code
Occurrences(code) == Cardinality({rp \in Positions : CodeAt(rp[1], rp[2]) = code})
\* the window at position p of record r is in the loaded set and, when multiple
\* mapped k-mers are not allowed, its code is at no other position of the genome
Qualifying(r, p) ==
    /\ CodeAt(r, p) \in m
    /\ mMapped \/ Occurrences(CodeAt(r, p)) = 1
\* the scan is under way or over
Scanning == cmd = "uniqs" /\ pc \in {"scan", "scanwin", "done"}

\* C12: every interval [s, e) that uniqs has written lies within the window
\* positions of its record, and every window position p with s-k+1 <= p < e
\* holds a code of the loaded set which, when multiple mapped k-mers are not
\* allowed, is at exactly one window position of the whole genome.
C12_IntervalsCoverMembers ==
    Scanning =>
        \A b \in DOMAIN bed :
            LET r == bed[b][1]
                s == bed[b][2]
                e == bed[b][3]
            IN  /\ 0 <= s - k + 1 /\ e <= NumWindows(genome[r], k, circular)
                /\ \A p \in (s - k + 1)..(e - 1) : Qualifying(r, p)

\* C12 witness: multiple mapped k-mers are not allowed, the genome's record
\* holds a loaded code twice and other loaded codes once, and an interval was
\* written.
C12_Witness ==
    /\ cmd = "uniqs" /\ pc = "done" /\ ~mMapped /\ bed # <<>>
    /\ \E rp \in Positions : CodeAt(rp[1], rp[2]) \in m /\ Occurrences(CodeAt(rp[1], rp[2])) > 1

\* C13, as claimed: the k-mer that starts at the first position of an interval
\* lies inside the interval, s + k <= e, for any min-len >= 1.
C13_FirstKmerContained ==
    Scanning => \A b \in DOMAIN bed : bed[b][2] + k <= bed[b][3]

\* a loop over the windows is under way and has encoded a window of the record
InWindowLoop ==
    /\ cmd \in {"uniqs", "count"} /\ pc \in {"prewin", "scanwin", "win"}
    /\ ~firstKmer

RECURSIVE MarkAll(_, _, _)
MarkAll(mm, first, cs) ==
    IF cs = <<>> THEN mm
    ELSE MarkAll(DiffStep(mm, first, Head(cs)), first, Tail(cs))

\* the codes a run that never leaves the file loop early ends with, from the
\* mapping mm before the file at position j (1-based) of the argument list: a
\* file of another k ends the run with nothing written
RECURSIVE NoEarlyExit(_, _)
NoEarlyExit(mm, j) ==
    IF j > Len(files) THEN DOMAIN mm
    ELSE IF files[j] = files[1] THEN NoEarlyExit(mm, j + 1)
    ELSE IF disk[files[j]].K # disk[files[1]].K THEN {}
    ELSE LET marked == MarkAll(mm, FALSE, disk[files[j]].codes)
         IN  NoEarlyExit(IF Checkpoint(j - 1, Len(files), checkInterval)
                         THEN Sweep(marked) ELSE marked, j + 1)

\* the same run from its start: the first file is loaded, then the others
NoEarlyExitRun == NoEarlyExit(MarkAll(<<>>, TRUE, disk[files[1]].codes), 2)

\* C16: when diff finds the mapping empty at a checkpoint after file i it
\* leaves the file loop: the only step that follows ends the command, opens and
\* reads no further file and writes no code; and the run that would have gone
\* on through the remaining files, from the start or from here, would have
\* ended with no code either.
C16_EarlyExit ==
    [][(cmd = "diff" /\ pc = "break") =>
          /\ ~hasDiff /\ m = <<>> /\ output = <<>>
          /\ NoEarlyExit(m, i + 2) = {}
          /\ NoEarlyExitRun = {}
          /\ pc' = "done" /\ output' = <<>>
          /\ UNCHANGED <<i, pos, m, k, hasDiff>>]_vars

\* C16 witness: the command has ended by the early exit after a checkpoint
\* that emptied a non-empty mapping, with a file of codes, other than the
\* first file, never opened.
C16_Witness ==
    /\ cmd = "diff" /\ pc = "done" /\ ~hasDiff /\ output = <<>>
    /\ disk[files[1]].codes # <<>>
    /\ i + 1 < Len(files)
    /\ files[Len(files)] # files[1] /\ disk[files[Len(files)]].codes # <<>>

(* Claims about a Writer on a stream that may fail *)

\* the positions of wout at which the bytes b stand
Places(b) == {p \in 1..(Len(wout) - Len(b) + 1) : SubSeq(wout, p, p + Len(b) - 1) = b}

\* C17, as claimed: whatever Write calls were made on a Writer, also calls that
\* returned ErrKMismatch or an error of the stream, the bytes emitted hold the
\* magic number at most once, and a record was emitted only behind a complete
\* header.
C17_HeaderOnceAndFirst ==
    (phase \in {"write", "closed"} /\ cmd = "none") =>
        /\ Cardinality(Places(Magic)) <= 1
        /\ wlog # <<>> =>
              \E p \in Places(HeaderBytes(writer)) :
                 \E q \in Places(RecordBytes(writer, wlog[1])) : q >= p + 32

(* Claims about the intervals and the pre-scan of uniqs *)

\* the maximal runs [a, b) of consecutive qualifying window positions of record r
Runs(r) ==
    LET P == NumWindows(genome[r], k, circular)
    IN  {ab \in (0..P) \X (0..P) :
            /\ ab[1] < ab[2]
            /\ \A p \in ab[1]..(ab[2] - 1) : Qualifying(r, p)
            /\ ab[1] = 0 \/ ~Qualifying(r, ab[1] - 1)
            /\ ab[2] = P \/ ~Qualifying(r, ab[2])}
\* the intervals claimed for the genome: <<record, a+k-1, b>>
RunIntervals ==
    UNION {{<<r, ab[1] + k - 1, ab[2]>> : ab \in
               {cd \in Runs(r) : cd[2] - cd[1] >= k /\ cd[2] - (cd[1] + k - 1) >= minLen}} :
           r \in DOMAIN genome}
\* uniqs has ended behind the load of the k-mers: at the end of the scan, or by
\* a run-time panic in one of the passes over the genome
UniqsOver == cmd = "uniqs" /\ (pc = "done" \/ (pc = "aborted" /\ rec > 0))
\* no record of a circular genome is so short that a window reaches behind it
NoShortRecord == circular => \A r \in DOMAIN genome : 2 * Len(genome[r]) >= k

\* C18, as claimed: when uniqs has ended, the intervals written are exactly the
\* intervals [a+k-1, b) of the maximal runs [a, b) of qualifying window
\* positions with b-a >= k and b-(a+k-1) >= min-len, each written once.
C18_ExactRuns ==
    UniqsOver =>
        /\ Range(bed) = RunIntervals
        /\ Len(bed) = Cardinality(RunIntervals)

\* the same for genomes without a short circular record
C18_ExactRunsLong == NoShortRecord => C18_ExactRuns

\* the intervals cover only qualifying positions in such genomes
C12_IntervalsCoverMembersLong == NoShortRecord => C12_IntervalsCoverMembers

\* the canonical codes that stand at two or more window positions of the genome
MultiMapped == {CodeAt(rp[1], rp[2]) : rp \in {q \in Positions : Occurrences(CodeAt(q[1], q[2])) >= 2}}

\* C19, as claimed: when multiple mapped k-mers are not allowed, the mapping m2
\* after the pre-scan and its pruning holds exactly the canonical codes that
\* stand at two or more window positions of the genome, all records counted,
\* each with the value true.
C19_PreScanExact ==
    (Scanning /\ ~mMapped) =>
        /\ DOMAIN m2 = MultiMapped
        /\ \A code \in DOMAIN m2 : m2[code]

\* the same for genomes without a short circular record
C19_PreScanExactLong == NoShortRecord => C19_PreScanExact

(* Claims about the count of union *)

\* C20, as claimed: at every point of a union run the count n is the number
\* of keys of the mapping and the number of codes written to the output, and
\* the step that inserts a code is the step that writes it.
C20_CountInvariant ==
    /\ [](cmd = "union" => n = Cardinality(m) /\ n = Len(output))
    /\ [][(cmd = "union" /\ m' # m) =>
             \E code \in m' \ m : m' = m \cup {code} /\ output' = Append(output, code)]_vars

(* Claims about the read loop *)

\* the header of the stream declares the compact format and k = 0: records of
\* no byte
ZeroWidth ==
    /\ IntOfBits(Uint64(SubSeq(file, 17, 24))) = 2
    /\ IntOfBits(Uint64(SubSeq(file, 25, 32))) = 0

\* C21, as claimed: on every finite stream that starts with the magic number
\* and a complete metadata block, whatever minor version and k >= 0 it
\* declares, the loop that calls Read again and again gets end-of-stream or
\* another error after finitely many calls.
C21_ReadLoopTerminates == <>(phase = "end")

\* the same for streams whose records have at least one byte
C21_ReadLoopTerminatesWide == <>(phase = "end" \/ ZeroWidth)

(* Claims about count *)

\* the codes of s are in strictly increasing order
Increasing(s) == \A a, b \in DOMAIN s : a < b => s[a] < s[b]

\* C22: with --sort, count writes nothing while input is left, and the codes
\* it writes behind the file loop are the distinct codes it has seen, each
\* once, in strictly increasing order, so that the SORTED flag of the output is
\* true of it; without --sort a code is written in the step in which it is seen
\* for the first time, so the output holds each distinct code once, in
\* first-seen order.
C22_CountOrder ==
    /\ [](cmd = "count" =>
             /\ (sortKmers /\ pc # "done") => output = <<>>
             /\ (sortKmers /\ pc = "done") =>
                   /\ Increasing(output)
                   /\ Range(output) = m /\ Len(output) = Cardinality(m)
             /\ ~sortKmers =>
                   /\ Range(output) = m /\ Len(output) = Cardinality(m)
                   /\ n = Len(output))
    /\ [][(cmd = "count" /\ ~sortKmers) =>
             IF m' # m
             THEN \E code \in m' \ m : m' = m \cup {code} /\ output' = Append(output, code)
             ELSE output' = output]_vars

\* C22 witness: count has ended with --sort on both strands of a record whose
\* first window has a larger code than its second, so that the codes were not
\* seen in increasing order, and has written three codes or more.
C22_Witness ==
    /\ cmd = "count" /\ pc = "done" /\ sortKmers /\ ~canonical
    /\ Len(output) >= 3
    /\ Len(genome[1]) > k
    /\ NewKmerCode(WindowAt(genome[1], 0, k)).Code > NewKmerCode(WindowAt(genome[1], 1, k)).Code

(* Claims about the mapping of diff *)

\* the step is the end of an iteration of the file loop that sweeps the mapping
SweepStep ==
    /\ cmd = "diff" /\ pc = "read" /\ pc' \in {"loop", "break"}
    /\ ~firstFile /\ Checkpoint(i, Len(files), checkInterval)

\* C23: in a diff run on two or more files the keys of the mapping are codes
\* of the first file at every point; once the first file is loaded no step of
\* the run adds a key; and right after each sweep every entry left has the
\* value false.
C23_MappingOnlyShrinks ==
    /\ []((cmd = "diff" /\ Len(files) > 1) => DOMAIN m \subseteq CodesAt(1))
    /\ [][(cmd = "diff" /\ ~firstFile /\ run' = run) => DOMAIN m' \subseteq DOMAIN m]_vars
    /\ [][SweepStep => \A d \in DOMAIN m' : ~m'[d]]_vars

\* C23 witness: a sweep has deleted a key of the mapping and left another, and
\* a file is still to be read.
C23_Witness ==
    /\ cmd = "diff" /\ Len(files) > 1 /\ pc = "loop" /\ ~firstFile /\ i < Len(files)
    /\ DOMAIN m # {} /\ DOMAIN m # CodesAt(1)
    /\ \A d \in DOMAIN m : ~m[d]

(* Claims about the flags of the container union writes *)

\* the second union runs: on the output of the first and on its first input
SecondUnion == cmd = "union" /\ run = 1
\* the input of the first run that is given again
GivenAgain == IF files[1] = OutPath THEN files[2] ELSE files[1]

\* C24, as claimed: when the inputs of union carry the CANONICAL flag (the
\* first run has ended, so they all carry the flag of the first), the
\* container it has written carries the flag too, and the union of this
\* container and one of the inputs is not ended by the test of the flags.
C24_UnionKeepsCanonical ==
    (SecondUnion /\ disk[GivenAgain].canonical) =>
        /\ disk[OutPath].canonical
        /\ pc # "aborted"

\* the same for inputs that do not carry the flag
C24_UnionKeepsPlain ==
    (SecondUnion /\ ~disk[GivenAgain].canonical) =>
        /\ ~disk[OutPath].canonical
        /\ pc # "aborted"

(* Claims about the order of the intervals of uniqs *)

\* C25, as claimed: the intervals uniqs has written for one record stand in
\* the order of their positions, each starts at least k positions behind the
\* end of the one before (so they are disjoint), and every interval [s, e)
\* has 0 <= s < e <= the length of its record and e - s >= min-len.
C25_IntervalsOrdered ==
    Scanning =>
        /\ \A b \in DOMAIN bed :
              /\ 0 <= bed[b][2] /\ bed[b][2] < bed[b][3]
              /\ bed[b][3] <= Len(genome[bed[b][1]])
              /\ bed[b][3] - bed[b][2] >= minLen
        /\ \A a, b \in DOMAIN bed :
              (a < b /\ bed[a][1] = bed[b][1]) => bed[b][2] >= bed[a][3] + k

\* the same for genomes without a short circular record
C25_IntervalsOrderedLong == NoShortRecord => C25_IntervalsOrdered

===========================================================================
